---- MODULE Spec2Model ----
(***************************************************************************)
(* The job queue and display worker of the RGB matrix server (app.py):     *)
(* DisplayManager, its worker thread, the render routines and the          *)
(* producer calls (enqueue, clear, stop_current, status) and the request   *)
(* handler show_text.                                                      *)
(*                                                                         *)
(* Time is counted in ticks of 10 ms.  Only time.sleep lets time pass: the *)
(* statements between two sleeps of the worker take no time, and Tick is   *)
(* enabled only while the worker sleeps.  Producer threads run at any      *)
(* instant and interleave freely with the worker and with each other.      *)
(* A with-block of a producer is one step; the worker's with-blocks are    *)
(* two steps (the lock is taken; the body runs and the lock is released).  *)
(* reply is the reply that the step just taken gave to a client, if any.   *)
(*                                                                         *)
(* The thread-per-request server (pi_server.py, MatrixHandler) is modelled *)
(* next to it on variables of its own: one server thread, one worker       *)
(* thread for every show request, a shared stop event and the sink.        *)
(***************************************************************************)
EXTENDS Integers, Sequences, FiniteSets, TLC

\* ---------------------------------------------------------------- bounds
\* Number of enqueue/clear calls made in one run.
MaxJobs == 2
\* The finite duration (in ticks) given to input jobs.
Dur == 3
\* Declared delay (in ticks) of the first frame of the animated input job.
GifDelay == 2
\* Rendered width of the input text and width of the matrix, in pixels.
TextW == 1
MatrixW == 2
\* Longest text of a show-text request, in characters.
MaxTextLen == 1
\* Largest number of frames of an animated image in the runs that start
\* with one job about to be rendered; rendered text width and matrix width
\* of the scrolling text in those runs.
MaxFrames == 3
ScrollTextW == 50
ViewportW == 20

\* ------------------------------------------------------ program constants
NoDuration == -1
ImageHold == 5
TextHold == 2
ClearHold == 5
NoopHold == 1
MinGifDelay == 1
DefaultGifDelay == 7

Producers == {"p1", "p2"}
Worker == "w"
Free == "free"

JobType == {"image", "text", "weather", "clear", "noop"}

\* A Job: gif_frames is the number of frames (0: None), frame_delays the
\* list of delays (<<>>: None), image says whether a still image is attached,
\* text_w is the rendered width of the text.
Job(type, duration, image, gif_frames, frame_delays, text_w) ==
  [id |-> 0, type |-> type, duration |-> duration, image |-> image,
   gif_frames |-> gif_frames, frame_delays |-> frame_delays, text_w |-> text_w]

\* self._current_job = None
NoJob == Job("none", NoDuration, FALSE, 0, <<>>, 0)

Durations == {NoDuration, Dur}

\* The jobs the request layer hands to enqueue.
JobInputs ==
  {Job("image", d, TRUE, 0, <<>>, 0) : d \in Durations}
  \cup {Job("image", d, FALSE, 2, <<GifDelay, 0>>, 0) : d \in Durations}
  \cup {Job("image", Dur, FALSE, 1, <<>>, 0)}
  \cup {Job("image", Dur, FALSE, 0, <<>>, 0)}
  \cup {Job("text", d, FALSE, 0, <<>>, TextW) : d \in Durations}
  \cup {Job("weather", d, FALSE, 0, <<>>, 0) : d \in Durations}
  \cup {Job("clear", Dur, FALSE, 0, <<>>, 0)}
  \cup {Job("noop", NoDuration, FALSE, 0, <<>>, 0)}

\* One job of each kind, for the runs with status() calls.
FewJobInputs ==
  {Job("image", NoDuration, TRUE, 0, <<>>, 0),
   Job("image", Dur, FALSE, 1, <<>>, 0),
   Job("image", Dur, FALSE, 0, <<>>, 0),
   Job("text", Dur, FALSE, 0, <<>>, TextW),
   Job("noop", NoDuration, FALSE, 0, <<>>, 0)}

\* The jobs of the runs that start with one job about to be rendered.
RenderJobInputs ==
  {Job("image", d, FALSE, n, [k \in 1..n |-> GifDelay], 0) :
     n \in 1..MaxFrames, d \in Durations}
  \cup {Job("text", d, FALSE, 0, <<>>, ScrollTextW) : d \in Durations}

\* Job(type=JobType.CLEAR, duration=None)
ClearJob == Job("clear", NoDuration, FALSE, 0, <<>>, 0)

\* A job whose frame_delays list is shorter than gif_frames.
BadJobInputs == {Job("image", NoDuration, FALSE, 2, <<GifDelay>>, 0)}

Max(a, b) == IF a > b THEN a ELSE b
Min(a, b) == IF a < b THEN a ELSE b

\* Largest value of the clocks kept by the model.
ClockCap == Dur + Max(DefaultGifDelay, GifDelay) + 2

VARIABLES
  job_q,        \* self._job_q: the queued jobs, head first
  current_job,  \* self._current_job
  cancel_evt,   \* self._cancel_evt
  lock,         \* holder of self._lock, or Free
  next_id,      \* self._next_id
  matrix,       \* the last write to the sink
  wpc,          \* position of the worker thread
  job,          \* the worker's local job
  elapsed,      \* time.time() - start of the running render routine
  i,            \* frame index of _display_gif
  x,            \* scroll offset of _display_text_scroll
  sleep,        \* ticks left of the worker's time.sleep
  ppc,          \* position of each producer thread
  pjob,         \* the job each producer is enqueueing
  ret,          \* the value returned by the enqueue call that returned last
  width,        \* self.matrix.width
  spc,          \* position of the thread that runs status()
  scur,         \* cid and ctype read by status() under the lock
  reply,        \* the reply the last step gave to a client (NoReply: none)
  \* history
  issued,       \* the ids _next_job_id handed out, in order
  putOrder,     \* the ids in the order of _job_q.put
  started,      \* the ids in the order the worker dispatched them
  setters,      \* current-job slot seen by each stop_current since the event was last cleared
  curStopped,   \* stop_current was called while the present current job was current
  wexit,        \* how the try block of the present iteration ended
  shown,        \* ticks since the job was published as current
  hold,         \* length of the worker's last sleep
  stopAge,      \* ticks since the event was set
  acceptedBlank,\* show_text enqueued a text made of whitespace only
  \* MatrixHandler of pi_server.py
  stop_event,   \* self.stop_event
  handler_job,  \* self.current_job of the MatrixHandler
  pi_matrix,    \* the last write to the MatrixHandler's sink, and the writer before it
  hpc,          \* position of the server thread inside a MatrixHandler call
  hreq,         \* the show request the server thread is handling
  threads,      \* the worker threads started so far: position and locals of each
  unobserved,   \* threads that ran when the event was set and have not polled it since
  missed        \* running threads whose pending stop was erased by a later show request

dmVars == <<job_q, current_job, cancel_evt, lock, next_id, matrix>>
workerVars == <<wpc, job, elapsed, i, x, sleep>>
prodVars == <<ppc, pjob, ret>>
histVars == <<issued, putOrder, started, setters, curStopped, wexit, shown, hold, stopAge>>
apiVars == <<spc, scur, reply, acceptedBlank>>
piVars == <<stop_event, handler_job, pi_matrix, hpc, hreq, threads, unobserved, missed>>
vars == <<dmVars, workerVars, prodVars, histVars, width, apiVars, piVars>>

\* status() has read nothing; no reply is on its way.
NoSnapshot == [id |-> 0, type |-> "none", nput |-> 0]
NoReply == [kind |-> "none"]
\* The server thread of pi_server.py is handling no show request.
NoRequest == [kind |-> "none", duration |-> 0]

\* A step of the worker, of the clock or of a DisplayManager call other than
\* status(): it replies nothing to a client and status() does not move.
CoreStep ==
  /\ reply' = NoReply
  /\ UNCHANGED <<width, spc, scur, acceptedBlank, piVars>>

\* MatrixHandler.__init__: no worker thread exists, the event is clear.
PiInit ==
  /\ stop_event = FALSE
  /\ handler_job = "none"
  /\ pi_matrix = [op |-> "none", by |-> 0, prev |-> 0]
  /\ hpc = "idle"
  /\ hreq = NoRequest
  /\ threads = <<>>
  /\ unobserved = {}
  /\ missed = {}

\* DisplayManager.__init__: the worker thread waits on the empty queue.
Init ==
  /\ job_q = <<>>
  /\ current_job = NoJob
  /\ cancel_evt = FALSE
  /\ lock = Free
  /\ next_id = 1
  /\ matrix = [op |-> "none", frame |-> 0, by |-> Free, job |-> 0, cur |-> 0, late |-> FALSE]
  /\ wpc = "get"
  /\ job = NoJob
  /\ elapsed = 0
  /\ i = 0
  /\ x = 0
  /\ sleep = 0
  /\ ppc = [p \in Producers |-> "idle"]
  /\ pjob = [p \in Producers |-> NoJob]
  /\ ret = 0
  /\ issued = <<>>
  /\ putOrder = <<>>
  /\ started = <<>>
  /\ setters = {}
  /\ curStopped = FALSE
  /\ wexit = "none"
  /\ shown = 0
  /\ hold = 0
  /\ stopAge = 0
  /\ width = MatrixW
  /\ spc = "idle"
  /\ scur = NoSnapshot
  /\ reply = NoReply
  /\ acceptedBlank = FALSE
  /\ PiInit

\* ------------------------------------------------------------- producers

\* Variant of NextJobId without the lock: the counter may be read before a
\* concurrent caller, still between its own _next_job_id and put, wrote it.
NextJobId_unlocked(p, j) ==
  \E v \in {next_id} \cup {pjob[q].id : q \in {r \in Producers : ppc[r] = "put"}} :
    /\ next_id' = v + 1
    /\ issued' = Append(issued, v)
    /\ pjob' = [pjob EXCEPT ![p] = [j EXCEPT !.id = v]]

\* job.id = self._next_job_id(): under the lock, jid = self._next_id;
\* self._next_id += 1; return jid.
NextJobId(p, j) ==
  /\ lock = Free
  /\ next_id' = next_id + 1
  /\ issued' = Append(issued, next_id)
  /\ pjob' = [pjob EXCEPT ![p] = [j EXCEPT !.id = next_id]]

\* The first statement of enqueue(j), made by producer p.
EnterEnqueue(p, j) ==
  /\ ppc[p] = "idle"
  /\ next_id <= MaxJobs
  /\ NextJobId(p, j)
  /\ ppc' = [ppc EXCEPT ![p] = "put"]
  /\ UNCHANGED <<job_q, current_job, cancel_evt, lock, matrix>>
  /\ UNCHANGED <<workerVars, ret>>
  /\ UNCHANGED <<putOrder, started, setters, curStopped, wexit, shown, hold, stopAge>>

\* DisplayManager.enqueue(job), called by a request handler.
DM_enqueue(p, j) == EnterEnqueue(p, j) /\ CoreStep

\* Variant of clear that blanks the sink from the calling thread.
DM_clear_direct(p) ==
  /\ CoreStep
  /\ ppc[p] = "idle"
  /\ matrix' = [op |-> "Clear", frame |-> 0, by |-> p, job |-> 0,
                cur |-> current_job.id, late |-> FALSE]
  /\ UNCHANGED <<job_q, current_job, cancel_evt, lock, next_id>>
  /\ UNCHANGED <<workerVars, prodVars, histVars>>

\* Variant of clear that puts the Clear job at the head of the queue.
DM_clear_front(p) ==
  /\ CoreStep
  /\ ppc[p] = "idle"
  /\ next_id <= MaxJobs
  /\ lock = Free
  /\ job_q' = <<[ClearJob EXCEPT !.id = next_id]>> \o job_q
  /\ next_id' = next_id + 1
  /\ issued' = Append(issued, next_id)
  /\ putOrder' = Append(putOrder, next_id)
  /\ ret' = next_id
  /\ UNCHANGED <<current_job, cancel_evt, lock, matrix>>
  /\ UNCHANGED <<workerVars, ppc, pjob>>
  /\ UNCHANGED <<started, setters, curStopped, wexit, shown, hold, stopAge>>

\* DisplayManager.clear(): self.enqueue(Job(type=JobType.CLEAR, duration=None))
DM_clear(p) == EnterEnqueue(p, ClearJob) /\ CoreStep

\* self._job_q.put(job); return job.id (the call's locals end with it)
Put(p) ==
  /\ CoreStep
  /\ ppc[p] = "put"
  /\ job_q' = Append(job_q, pjob[p])
  /\ putOrder' = Append(putOrder, pjob[p].id)
  /\ ret' = pjob[p].id
  /\ pjob' = [pjob EXCEPT ![p] = NoJob]
  /\ ppc' = [ppc EXCEPT ![p] = "idle"]
  /\ UNCHANGED <<current_job, cancel_evt, lock, next_id, matrix>>
  /\ UNCHANGED workerVars
  /\ UNCHANGED <<issued, started, setters, curStopped, wexit, shown, hold, stopAge>>

\* DisplayManager.stop_current(): self._cancel_evt.set()
DM_stop_current(p) ==
  /\ CoreStep
  /\ ppc[p] = "idle"
  /\ cancel_evt' = TRUE
  /\ setters' = setters \cup {current_job.id}
  /\ curStopped' = (curStopped \/ current_job.id # 0)
  /\ stopAge' = IF cancel_evt THEN stopAge ELSE 0
  /\ UNCHANGED <<job_q, current_job, lock, next_id, matrix>>
  /\ UNCHANGED <<workerVars, prodVars>>
  /\ UNCHANGED <<issued, putOrder, started, wexit, shown, hold>>

\* status(), first part: with self._lock: cid and ctype are read from
\* self._current_job (nput notes how many puts were made by then).
DM_status_read ==
  /\ spc = "idle"
  /\ lock = Free
  /\ scur' = [id |-> current_job.id, type |-> current_job.type, nput |-> Len(putOrder)]
  /\ spc' = "qsize"
  /\ reply' = NoReply
  /\ UNCHANGED <<dmVars, workerVars, prodVars, histVars, width, acceptedBlank, piVars>>

\* status(), second part, outside the lock: the dict is built with
\* self._job_q.qsize() and returned.
DM_status_return ==
  /\ spc = "qsize"
  /\ reply' = [kind |-> "status", current_job_id |-> scur.id,
               current_job_type |-> scur.type, queue_size |-> Len(job_q),
               nput |-> scur.nput]
  /\ spc' = "idle"
  /\ scur' = NoSnapshot
  /\ UNCHANGED <<dmVars, workerVars, prodVars, histVars, width, acceptedBlank, piVars>>

\* ------------------------------------------------------ request handlers

\* The characters of a request text, and the ones str.strip() removes.
Chars == {" ", "a"}
Whitespace == {" "}
Texts == UNION {[1..n -> Chars] : n \in 0..MaxTextLen}

\* str.strip(): leading and trailing whitespace is removed.
RECURSIVE LStrip(_)
LStrip(s) == IF s # <<>> /\ Head(s) \in Whitespace THEN LStrip(Tail(s)) ELSE s
RECURSIVE RStrip(_)
RStrip(s) ==
  IF s # <<>> /\ s[Len(s)] \in Whitespace THEN RStrip(SubSeq(s, 1, Len(s) - 1)) ELSE s
Strip(s) == RStrip(LStrip(s))

\* Variant of the test of show_text without strip().
TextRejected_no_strip(text) == text = <<>>

\* if not req.text.strip(): the empty string is the false one.
TextRejected(text) == Strip(text) = <<>>

\* A text made of whitespace only (the empty text included).
IsBlank(text) == \A k \in DOMAIN text : text[k] \in Whitespace

\* POST /matrix/show/text with text and duration d, served by thread p:
\* HTTPException(400), or manager.enqueue(Job(TEXT, text, d)). The rendered
\* width of a text is one pixel for each character.
show_text(p, text, d) ==
  /\ ppc[p] = "idle"
  /\ IF TextRejected(text)
       THEN /\ reply' = [kind |-> "error", status_code |-> 400, text |-> text]
            /\ UNCHANGED <<dmVars, workerVars, prodVars, histVars>>
            /\ UNCHANGED <<width, spc, scur, acceptedBlank, piVars>>
       ELSE /\ EnterEnqueue(p, Job("text", d, FALSE, 0, <<>>, Len(text)))
            /\ acceptedBlank' = (acceptedBlank \/ IsBlank(text))
            /\ reply' = NoReply
            /\ UNCHANGED <<width, spc, scur, piVars>>

\* ---------------------------------------------------------------- worker

\* The exit condition of the render routines holds for the worker's job:
\* the event is set, or the job has a duration and it has elapsed.
Exited == cancel_evt \/ (job.duration # NoDuration /\ elapsed >= job.duration)

\* self.matrix.SetImage(frame) and self.matrix.Clear(), called by thread t;
\* late notes whether the exit condition held at the call.
SetImage(t, frame) ==
  [op |-> "SetImage", frame |-> frame, by |-> t, job |-> job.id,
   cur |-> current_job.id, late |-> Exited]

MatrixClear(t) ==
  [op |-> "Clear", frame |-> 0, by |-> t, job |-> job.id,
   cur |-> current_job.id, late |-> Exited]

\* job.frame_delays or [0.07]*len(job.gif_frames)
Delays(j) ==
  IF j.frame_delays = <<>> THEN [k \in 1..j.gif_frames |-> DefaultGifDelay]
  ELSE j.frame_delays

\* Variants of the loop condition: a job without duration is taken as
\* expired; the event is not polled; the comparison with duration is inverted.
LoopContinues_none_expires(evt, duration, el) ==
  ~evt /\ duration # NoDuration /\ el < duration

LoopContinues_no_poll(evt, duration, el) ==
  duration = NoDuration \/ el < duration

LoopContinues_inverted(evt, duration, el) ==
  ~evt /\ (duration = NoDuration \/ el > duration)

\* The condition of the while loops of the render routines.
LoopContinues(evt, duration, el) ==
  ~evt /\ (duration = NoDuration \/ el < duration)

\* Variant of W_get that takes the job put last.
W_get_lifo ==
  /\ CoreStep
  /\ wpc = "get"
  /\ job_q # <<>>
  /\ job' = job_q[Len(job_q)]
  /\ job_q' = SubSeq(job_q, 1, Len(job_q) - 1)
  /\ wpc' = "clear_evt"
  /\ UNCHANGED <<current_job, cancel_evt, lock, next_id, matrix>>
  /\ UNCHANGED <<elapsed, i, x, sleep, prodVars, histVars>>

\* Variant of W_get that takes the head of the queue and loses the rest.
W_get_drops ==
  /\ CoreStep
  /\ wpc = "get"
  /\ job_q # <<>>
  /\ job' = Head(job_q)
  /\ job_q' = <<>>
  /\ wpc' = "clear_evt"
  /\ UNCHANGED <<current_job, cancel_evt, lock, next_id, matrix>>
  /\ UNCHANGED <<elapsed, i, x, sleep, prodVars, histVars>>

\* job = self._job_q.get()
W_get ==
  /\ CoreStep
  /\ wpc = "get"
  /\ job_q # <<>>
  /\ job' = Head(job_q)
  /\ job_q' = Tail(job_q)
  /\ wpc' = "clear_evt"
  /\ UNCHANGED <<current_job, cancel_evt, lock, next_id, matrix>>
  /\ UNCHANGED <<elapsed, i, x, sleep, prodVars, histVars>>

\* Variant of W_clear_evt that leaves the event as it is.
W_clear_evt_skip ==
  /\ CoreStep
  /\ wpc = "clear_evt"
  /\ wpc' = "publish"
  /\ UNCHANGED <<dmVars, job, elapsed, i, x, sleep, prodVars, histVars>>

\* self._cancel_evt.clear()
W_clear_evt ==
  /\ CoreStep
  /\ wpc = "clear_evt"
  /\ cancel_evt' = FALSE
  /\ setters' = {}
  /\ stopAge' = 0
  /\ wpc' = "publish"
  /\ UNCHANGED <<job_q, current_job, lock, next_id, matrix>>
  /\ UNCHANGED <<job, elapsed, i, x, sleep, prodVars>>
  /\ UNCHANGED <<issued, putOrder, started, curStopped, wexit, shown, hold>>

\* with self._lock: (entering the block that publishes the job)
W_publish_lock ==
  /\ CoreStep
  /\ wpc = "publish"
  /\ lock = Free
  /\ lock' = Worker
  /\ wpc' = "publish_set"
  /\ UNCHANGED <<job_q, current_job, cancel_evt, next_id, matrix>>
  /\ UNCHANGED <<job, elapsed, i, x, sleep, prodVars, histVars>>

\* Variant of W_publish that leaves the with-block without releasing the lock.
W_publish_keeps_lock ==
  /\ CoreStep
  /\ wpc = "publish_set"
  /\ current_job' = job
  /\ shown' = 0
  /\ wpc' = "dispatch"
  /\ UNCHANGED <<job_q, cancel_evt, lock, next_id, matrix>>
  /\ UNCHANGED <<job, elapsed, i, x, sleep, prodVars>>
  /\ UNCHANGED <<issued, putOrder, started, setters, curStopped, wexit, hold, stopAge>>

\* self._current_job = job, and the lock is released
W_publish ==
  /\ CoreStep
  /\ wpc = "publish_set"
  /\ current_job' = job
  /\ lock' = Free
  /\ shown' = 0
  /\ wpc' = "dispatch"
  /\ UNCHANGED <<job_q, cancel_evt, next_id, matrix>>
  /\ UNCHANGED <<job, elapsed, i, x, sleep, prodVars>>
  /\ UNCHANGED <<issued, putOrder, started, setters, curStopped, wexit, hold, stopAge>>

\* What every branch of the dispatch does in the model: the job is recorded
\* as started and the locals of its render routine are fresh.
Dispatched ==
  /\ CoreStep
  /\ wpc = "dispatch"
  /\ started' = Append(started, job.id)
  /\ elapsed' = 0
  /\ i' = 0
  /\ x' = 0
  /\ UNCHANGED <<job_q, current_job, cancel_evt, lock, next_id>>
  /\ UNCHANGED <<job, prodVars>>
  /\ UNCHANGED <<issued, putOrder, setters, curStopped, shown, stopAge>>

\* Variant of W_clear that holds the blank as _display_image holds an image:
\* until the duration has elapsed or the event is set.
W_clear_polls ==
  /\ Dispatched
  /\ job.type = "clear"
  /\ matrix' = MatrixClear(Worker)
  /\ wpc' = "image_loop"
  /\ UNCHANGED <<sleep, hold, wexit>>

\* job.type == CLEAR: self.matrix.Clear(); time.sleep(0.05)
W_clear ==
  /\ Dispatched
  /\ job.type = "clear"
  /\ matrix' = MatrixClear(Worker)
  /\ sleep' = ClearHold
  /\ hold' = ClearHold
  /\ wpc' = "brief_sleep"
  /\ UNCHANGED wexit

\* the else branch (NOOP): time.sleep(0.01)
W_noop ==
  /\ Dispatched
  /\ job.type \notin {"clear", "image", "text", "weather"}
  /\ sleep' = NoopHold
  /\ hold' = NoopHold
  /\ wpc' = "brief_sleep"
  /\ UNCHANGED <<matrix, wexit>>

\* job.type == IMAGE with neither gif_frames nor image: only a message
W_image_missing ==
  /\ Dispatched
  /\ job.type = "image" /\ job.gif_frames = 0 /\ ~job.image
  /\ wexit' = "done"
  /\ wpc' = "finally"
  /\ UNCHANGED <<matrix, sleep, hold>>

\* _display_image (IMAGE with an image; WEATHER through
\* _display_weather_template): start = time.time(); fit; SetImage once
W_display_image ==
  /\ Dispatched
  /\ \/ job.type = "image" /\ job.gif_frames = 0 /\ job.image
     \/ job.type = "weather"
  /\ matrix' = SetImage(Worker, 0)
  /\ wpc' = "image_loop"
  /\ UNCHANGED <<sleep, hold, wexit>>

\* _display_gif up to the loop: start = time.time(); i = 0
W_display_gif ==
  /\ Dispatched
  /\ job.type = "image" /\ job.gif_frames > 0
  /\ wpc' = "gif_loop"
  /\ UNCHANGED <<matrix, sleep, hold, wexit>>

\* _display_text_scroll up to the loop: the strip is drawn; start; x = 0
W_display_text ==
  /\ Dispatched
  /\ job.type = "text"
  /\ wpc' = "text_loop"
  /\ UNCHANGED <<matrix, sleep, hold, wexit>>

\* The sleep of a CLEAR or NOOP job is over: the try block ends.
W_brief_done ==
  /\ CoreStep
  /\ wpc = "brief_sleep"
  /\ sleep = 0
  /\ wexit' = "done"
  /\ wpc' = "finally"
  /\ UNCHANGED <<dmVars, job, elapsed, i, x, sleep, prodVars>>
  /\ UNCHANGED <<issued, putOrder, started, setters, curStopped, shown, hold, stopAge>>

\* The while condition was false: the render routine returns.
RenderReturns ==
  /\ wexit' = IF cancel_evt THEN "cancel" ELSE "expiry"
  /\ wpc' = "finally"
  /\ UNCHANGED <<matrix, i, x, sleep, hold>>

\* _display_image: while not canceled and not expired: time.sleep(0.05)
W_image_loop ==
  /\ CoreStep
  /\ wpc = "image_loop"
  /\ sleep = 0
  /\ IF LoopContinues(cancel_evt, job.duration, elapsed)
       THEN /\ sleep' = ImageHold
            /\ hold' = ImageHold
            /\ UNCHANGED <<matrix, i, x, wpc, wexit>>
       ELSE RenderReturns
  /\ UNCHANGED <<job_q, current_job, cancel_evt, lock, next_id>>
  /\ UNCHANGED <<job, elapsed, prodVars>>
  /\ UNCHANGED <<issued, putOrder, started, setters, curStopped, shown, stopAge>>

\* Variant of W_gif_loop without wraparound: the index stays at the last frame.
W_gif_loop_no_wrap ==
  /\ CoreStep
  /\ wpc = "gif_loop"
  /\ sleep = 0
  /\ IF LoopContinues(cancel_evt, job.duration, elapsed)
       THEN /\ i < Len(Delays(job))
            /\ matrix' = SetImage(Worker, i)
            /\ sleep' = Max(MinGifDelay, Delays(job)[i + 1])
            /\ hold' = Max(MinGifDelay, Delays(job)[i + 1])
            /\ i' = IF i + 1 < job.gif_frames THEN i + 1 ELSE i
            /\ UNCHANGED <<x, wpc, wexit>>
       ELSE RenderReturns
  /\ UNCHANGED <<job_q, current_job, cancel_evt, lock, next_id>>
  /\ UNCHANGED <<job, elapsed, prodVars>>
  /\ UNCHANGED <<issued, putOrder, started, setters, curStopped, shown, stopAge>>

\* _display_gif: one pass of the while loop.
W_gif_loop ==
  /\ CoreStep
  /\ wpc = "gif_loop"
  /\ sleep = 0
  /\ IF LoopContinues(cancel_evt, job.duration, elapsed)
       THEN /\ i < Len(Delays(job))
            /\ matrix' = SetImage(Worker, i)
            /\ sleep' = Max(MinGifDelay, Delays(job)[i + 1])
            /\ hold' = Max(MinGifDelay, Delays(job)[i + 1])
            /\ i' = (i + 1) % job.gif_frames
            /\ UNCHANGED <<x, wpc, wexit>>
       ELSE RenderReturns
  /\ UNCHANGED <<job_q, current_job, cancel_evt, lock, next_id>>
  /\ UNCHANGED <<job, elapsed, prodVars>>
  /\ UNCHANGED <<issued, putOrder, started, setters, curStopped, shown, stopAge>>

\* Variant of W_text_loop that writes the frame at x and advances x afterwards.
W_text_loop_write_first ==
  /\ CoreStep
  /\ wpc = "text_loop"
  /\ sleep = 0
  /\ IF LoopContinues(cancel_evt, job.duration, elapsed)
       THEN /\ x' = (x + 1) % (job.text_w + width)
            /\ matrix' = SetImage(Worker, x)
            /\ sleep' = TextHold
            /\ hold' = TextHold
            /\ UNCHANGED <<i, wpc, wexit>>
       ELSE RenderReturns
  /\ UNCHANGED <<job_q, current_job, cancel_evt, lock, next_id>>
  /\ UNCHANGED <<job, elapsed, prodVars>>
  /\ UNCHANGED <<issued, putOrder, started, setters, curStopped, shown, stopAge>>

\* _display_text_scroll: one pass of the while loop.
W_text_loop ==
  /\ CoreStep
  /\ wpc = "text_loop"
  /\ sleep = 0
  /\ IF LoopContinues(cancel_evt, job.duration, elapsed)
       THEN /\ x' = (x + 1) % (job.text_w + width)
            /\ matrix' = SetImage(Worker, (x + 1) % (job.text_w + width))
            /\ sleep' = TextHold
            /\ hold' = TextHold
            /\ UNCHANGED <<i, wpc, wexit>>
       ELSE RenderReturns
  /\ UNCHANGED <<job_q, current_job, cancel_evt, lock, next_id>>
  /\ UNCHANGED <<job, elapsed, prodVars>>
  /\ UNCHANGED <<issued, putOrder, started, setters, curStopped, shown, stopAge>>

\* finally: with self._lock: (entering the block)
W_finally_lock ==
  /\ CoreStep
  /\ wpc = "finally"
  /\ lock = Free
  /\ lock' = Worker
  /\ wpc' = "finally_set"
  /\ UNCHANGED <<job_q, current_job, cancel_evt, next_id, matrix>>
  /\ UNCHANGED <<job, elapsed, i, x, sleep, prodVars, histVars>>

\* Variant of W_finally that resets the slot only when the try block ended
\* without an exception (the reset placed after the try statement).
W_finally_after_try ==
  /\ CoreStep
  /\ wpc = "finally_set"
  /\ current_job' = IF wexit = "raise" THEN current_job ELSE NoJob
  /\ lock' = Free
  /\ wpc' = IF wexit = "raise" THEN "dead" ELSE "get"
  /\ job' = NoJob
  /\ elapsed' = 0
  /\ i' = 0
  /\ x' = 0
  /\ shown' = 0
  /\ hold' = 0
  /\ stopAge' = 0
  /\ curStopped' = FALSE
  /\ wexit' = IF wexit = "raise" THEN "raise" ELSE "none"
  /\ UNCHANGED <<job_q, cancel_evt, next_id, matrix>>
  /\ UNCHANGED <<sleep, prodVars>>
  /\ UNCHANGED <<issued, putOrder, started, setters>>

\* self._current_job = None and the lock is released; self._job_q.task_done();
\* then the loop goes round, or the exception that the try block raised
\* leaves _worker and ends the thread. The locals of the finished iteration
\* are dead from here on.
W_finally ==
  /\ CoreStep
  /\ wpc = "finally_set"
  /\ current_job' = NoJob
  /\ lock' = Free
  /\ wpc' = IF wexit = "raise" THEN "dead" ELSE "get"
  /\ job' = NoJob
  /\ elapsed' = 0
  /\ i' = 0
  /\ x' = 0
  /\ shown' = 0
  /\ hold' = 0
  /\ stopAge' = 0
  /\ curStopped' = FALSE
  /\ wexit' = IF wexit = "raise" THEN "raise" ELSE "none"
  /\ UNCHANGED <<job_q, cancel_evt, next_id, matrix>>
  /\ UNCHANGED <<sleep, prodVars>>
  /\ UNCHANGED <<issued, putOrder, started, setters>>

\* ------------------------------------------------------------------ time

\* 10 ms pass while the worker sleeps. The clock of a render routine is read
\* only when the job has a duration.
Tick ==
  /\ CoreStep
  /\ sleep > 0
  /\ sleep' = sleep - 1
  /\ elapsed' = IF job.duration = NoDuration THEN elapsed ELSE Min(elapsed + 1, ClockCap)
  /\ shown' = IF job.duration = NoDuration THEN shown ELSE Min(shown + 1, ClockCap)
  /\ stopAge' = IF cancel_evt THEN Min(stopAge + 1, ClockCap) ELSE stopAge
  /\ UNCHANGED <<dmVars, wpc, job, i, x, prodVars>>
  /\ UNCHANGED <<issued, putOrder, started, setters, curStopped, wexit, hold>>

\* ---------------------------------------------------------------- faults

\* A write to the sink raises (fit, SetImage or Clear throws).
W_sink_raise ==
  /\ CoreStep
  /\ \/ wpc = "dispatch" /\ (job.type \in {"clear", "weather"} \/ (job.type = "image" /\ job.image))
     \/ /\ wpc \in {"gif_loop", "text_loop"}
        /\ sleep = 0
        /\ LoopContinues(cancel_evt, job.duration, elapsed)
  /\ wexit' = "raise"
  /\ wpc' = "finally"
  /\ started' = IF wpc = "dispatch" THEN Append(started, job.id) ELSE started
  /\ UNCHANGED <<dmVars, job, elapsed, i, x, sleep, prodVars>>
  /\ UNCHANGED <<issued, putOrder, setters, curStopped, shown, hold, stopAge>>

\* _display_gif: delays[i] raises IndexError after frame i was written.
W_gif_index_error ==
  /\ CoreStep
  /\ wpc = "gif_loop"
  /\ sleep = 0
  /\ LoopContinues(cancel_evt, job.duration, elapsed)
  /\ i >= Len(Delays(job))
  /\ matrix' = SetImage(Worker, i)
  /\ wexit' = "raise"
  /\ wpc' = "finally"
  /\ UNCHANGED <<job_q, current_job, cancel_evt, lock, next_id>>
  /\ UNCHANGED <<job, elapsed, i, x, sleep, prodVars>>
  /\ UNCHANGED <<issued, putOrder, started, setters, curStopped, shown, hold, stopAge>>

\* --------------------------------------------------------- specifications

WorkerNext ==
  \/ W_get
  \/ W_clear_evt
  \/ W_publish_lock
  \/ W_publish
  \/ W_clear
  \/ W_noop
  \/ W_image_missing
  \/ W_display_image
  \/ W_display_gif
  \/ W_display_text
  \/ W_brief_done
  \/ W_image_loop
  \/ W_gif_loop
  \/ W_text_loop
  \/ W_finally_lock
  \/ W_finally

Next ==
  \/ WorkerNext
  \/ Tick
  \/ \E p \in Producers : \E j \in JobInputs : DM_enqueue(p, j)
  \/ \E p \in Producers : DM_clear(p)
  \/ \E p \in Producers : Put(p)
  \/ \E p \in Producers : DM_stop_current(p)

\* The sink never fails and every job is well formed.
Spec == Init /\ [][Next]_vars

NextFault ==
  \/ Next
  \/ W_sink_raise
  \/ W_gif_index_error
  \/ \E p \in Producers : \E j \in BadJobInputs : DM_enqueue(p, j)

\* Sink writes may raise, and a job may carry fewer delays than frames.
SpecFault == Init /\ [][NextFault]_vars

\* The requests show-text, clear and stop only: the worker gets text and
\* Clear jobs and takes no other branch of its dispatch.
NextHttp ==
  \/ \E p \in Producers : \E text \in Texts : \E d \in Durations : show_text(p, text, d)
  \/ \E p \in Producers : DM_clear(p)
  \/ \E p \in Producers : Put(p)
  \/ \E p \in Producers : DM_stop_current(p)
  \/ W_get
  \/ W_clear_evt
  \/ W_publish_lock
  \/ W_publish
  \/ W_clear
  \/ W_display_text
  \/ W_brief_done
  \/ W_text_loop
  \/ W_finally_lock
  \/ W_finally
  \/ Tick

SpecHttp == Init /\ [][NextHttp]_vars

\* Calls of status() next to the producers and the worker.
NextStatus ==
  \/ WorkerNext
  \/ Tick
  \/ \E p \in Producers : \E j \in FewJobInputs : DM_enqueue(p, j)
  \/ \E p \in Producers : DM_clear(p)
  \/ \E p \in Producers : Put(p)
  \/ \E p \in Producers : DM_stop_current(p)
  \/ DM_status_read
  \/ DM_status_return

SpecStatus == Init /\ [][NextStatus]_vars

\* One job of RenderJobInputs was enqueued on a fresh manager whose matrix
\* is ViewportW wide; the worker has taken and published it and is about to
\* dispatch it.
InitRender ==
  \E j \in RenderJobInputs :
    /\ job_q = <<>>
    /\ current_job = [j EXCEPT !.id = 1]
    /\ cancel_evt = FALSE
    /\ lock = Free
    /\ next_id = 2
    /\ matrix = [op |-> "none", frame |-> 0, by |-> Free, job |-> 0, cur |-> 0, late |-> FALSE]
    /\ wpc = "dispatch"
    /\ job = [j EXCEPT !.id = 1]
    /\ elapsed = 0
    /\ i = 0
    /\ x = 0
    /\ sleep = 0
    /\ ppc = [p \in Producers |-> "idle"]
    /\ pjob = [p \in Producers |-> NoJob]
    /\ ret = 1
    /\ issued = <<1>>
    /\ putOrder = <<1>>
    /\ started = <<>>
    /\ setters = {}
    /\ curStopped = FALSE
    /\ wexit = "none"
    /\ shown = 0
    /\ hold = 0
    /\ stopAge = 0
    /\ width = ViewportW
    /\ spc = "idle"
    /\ scur = NoSnapshot
    /\ reply = NoReply
    /\ acceptedBlank = FALSE
    /\ PiInit

\* The rendering of that job, with stop_current calls, up to the reset of
\* the slot.
NextRender ==
  \/ W_display_gif
  \/ W_display_text
  \/ W_gif_loop
  \/ W_text_loop
  \/ Tick
  \/ \E p \in Producers : DM_stop_current(p)
  \/ W_finally_lock
  \/ W_finally

SpecRender == InitRender /\ [][NextRender]_vars

\* ------------------------------------------- MatrixHandler (pi_server.py)
\* The second server keeps no queue. HTTPServer handles one request at a
\* time on the server thread; every show request starts a worker thread of
\* its own, which outlives the request. All threads share one stop event,
\* one current_job field and the sink, and nothing is locked.

\* Number of show requests made in one run.
MaxShows == 2

\* time.sleep(0.1) of the still-image and weather loops, time.sleep(0.02) of
\* the text loop, and the 64 pixels of the panel.
PiPoll == 10
PiTextHold == 2
PiWidth == 64

\* What a show request asks for: a still image, an animated image, an image
\* whose download raises, a text, the weather.
ShowKinds == {"still", "animated", "unfetched", "text", "weather"}

\* self.current_job = "image" | "text" | "weather"
HandlerJobName(kind) ==
  IF kind \in {"still", "animated", "unfetched"} THEN "image" ELSE kind

\* The worker of show_weather is the worker of a still image: one SetImage,
\* then the loop of time.sleep(0.1).
WorkerKind(kind) == IF kind = "weather" THEN "still" ELSE kind

\* frame.info.get("duration", 70) of the two frames of the animated image:
\* the first declares GifDelay ticks, the second 0.
PiFrameDurations == <<GifDelay, 0>>

\* delays.append(max(0.01, duration / 1000.0))
PiDelays == [k \in DOMAIN PiFrameDurations |-> Max(MinGifDelay, PiFrameDurations[k])]

\* Threads that can still read the stop event: started, not yet in finally.
Polling == {t \in DOMAIN threads : threads[t].pc \in {"begin", "loop"}}

\* self.matrix.SetImage(...) by thread t.
PiSetImage(t) == [op |-> "SetImage", by |-> t, prev |-> pi_matrix.by]

\* A step of the MatrixHandler leaves the DisplayManager alone.
PiStep == UNCHANGED <<dmVars, workerVars, prodVars, histVars, width, apiVars>>

\* Variant of the show request that waits until no worker thread runs.
MH_show_exclusive(kind, d) ==
  /\ PiStep
  /\ hpc = "idle"
  /\ Len(threads) < MaxShows
  /\ \A t \in DOMAIN threads : threads[t].pc = "dead"
  /\ stop_event' = FALSE
  /\ missed' = missed \cup unobserved
  /\ unobserved' = {}
  /\ hreq' = [kind |-> kind, duration |-> d]
  /\ hpc' = "show_set"
  /\ UNCHANGED <<handler_job, pi_matrix, threads>>

\* show_image_from_url / show_text / show_weather, first statement:
\* self.stop_event.clear(). A stop that a running thread has not polled yet
\* is erased.
MH_show(kind, d) ==
  /\ PiStep
  /\ hpc = "idle"
  /\ Len(threads) < MaxShows
  /\ stop_event' = FALSE
  /\ missed' = missed \cup unobserved
  /\ unobserved' = {}
  /\ hreq' = [kind |-> kind, duration |-> d]
  /\ hpc' = "show_set"
  /\ UNCHANGED <<handler_job, pi_matrix, threads>>

\* self.current_job = "image" | "text" | "weather"
MH_show_set ==
  /\ PiStep
  /\ hpc = "show_set"
  /\ handler_job' = HandlerJobName(hreq.kind)
  /\ hpc' = "show_start"
  /\ UNCHANGED <<stop_event, pi_matrix, hreq, threads, unobserved, missed>>

\* threading.Thread(target=worker).start(): the request returns.
MH_show_start ==
  /\ PiStep
  /\ hpc = "show_start"
  /\ threads' = Append(threads, [pc |-> "begin", kind |-> WorkerKind(hreq.kind),
                                 duration |-> hreq.duration, elapsed |-> 0,
                                 sleep |-> 0, idx |-> 0])
  /\ hreq' = NoRequest
  /\ hpc' = "idle"
  /\ UNCHANGED <<stop_event, handler_job, pi_matrix, unobserved, missed>>

\* clear(), first statement: self.stop_event.set()
MH_clear ==
  /\ PiStep
  /\ hpc = "idle"
  /\ stop_event' = TRUE
  /\ unobserved' = Polling
  /\ hpc' = "clear_blank"
  /\ UNCHANGED <<handler_job, pi_matrix, hreq, threads, missed>>

\* self.matrix.Clear(), on the server thread.
MH_clear_blank ==
  /\ PiStep
  /\ hpc = "clear_blank"
  /\ pi_matrix' = [op |-> "Clear", by |-> 0, prev |-> pi_matrix.by]
  /\ hpc' = "clear_reset"
  /\ UNCHANGED <<stop_event, handler_job, hreq, threads, unobserved, missed>>

\* stop_current(), first statement: self.stop_event.set()
MH_stop_current ==
  /\ PiStep
  /\ hpc = "idle"
  /\ stop_event' = TRUE
  /\ unobserved' = Polling
  /\ hpc' = "stop_reset"
  /\ UNCHANGED <<handler_job, pi_matrix, hreq, threads, missed>>

\* self.current_job = None, the last statement of clear() and stop_current().
MH_reset ==
  /\ PiStep
  /\ hpc \in {"clear_reset", "stop_reset"}
  /\ handler_job' = "none"
  /\ hpc' = "idle"
  /\ UNCHANGED <<stop_event, pi_matrix, hreq, threads, unobserved, missed>>

\* worker(), up to its loop: the download (which may raise), the one
\* SetImage of a still image or of the weather, start_time = time.time().
T_begin(t) ==
  /\ PiStep
  /\ t \in DOMAIN threads
  /\ threads[t].pc = "begin"
  /\ IF threads[t].kind = "unfetched"
       THEN /\ threads' = [threads EXCEPT ![t].pc = "finally"]
            /\ unobserved' = unobserved \ {t}
            /\ UNCHANGED pi_matrix
       ELSE /\ threads' = [threads EXCEPT ![t].pc = "loop"]
            /\ pi_matrix' = IF threads[t].kind = "still"
                              THEN PiSetImage(t) ELSE pi_matrix
            /\ UNCHANGED unobserved
  /\ UNCHANGED <<stop_event, handler_job, hpc, hreq, missed>>

\* while not self.stop_event.is_set() and (time.time() - start_time <
\* duration): one pass, up to its time.sleep, or the exit of the loop.
T_loop(t) ==
  /\ PiStep
  /\ t \in DOMAIN threads
  /\ threads[t].pc = "loop"
  /\ threads[t].sleep = 0
  /\ unobserved' = unobserved \ {t}
  /\ IF ~stop_event /\ threads[t].elapsed < threads[t].duration
       THEN CASE threads[t].kind = "animated" ->
                   /\ pi_matrix' = PiSetImage(t)
                   /\ threads' = [threads EXCEPT
                        ![t].sleep = PiDelays[threads[t].idx + 1],
                        ![t].idx = (threads[t].idx + 1) % Len(PiDelays)]
              [] threads[t].kind = "text" ->
                   /\ pi_matrix' = PiSetImage(t)
                   /\ threads' = [threads EXCEPT
                        ![t].sleep = PiTextHold,
                        ![t].idx = (threads[t].idx + 1) % (TextW + PiWidth)]
              [] OTHER ->
                   /\ threads' = [threads EXCEPT ![t].sleep = PiPoll]
                   /\ UNCHANGED pi_matrix
       ELSE /\ threads' = [threads EXCEPT ![t].pc = "finally"]
            /\ UNCHANGED pi_matrix
  /\ UNCHANGED <<stop_event, handler_job, hpc, hreq, missed>>

\* A thread that has ended; its locals are gone.
DeadThread ==
  [pc |-> "dead", kind |-> "none", duration |-> 0, elapsed |-> 0, sleep |-> 0, idx |-> 0]

\* finally: self.current_job = None, whichever request set the field last.
\* The thread ends.
T_finally(t) ==
  /\ PiStep
  /\ t \in DOMAIN threads
  /\ threads[t].pc = "finally"
  /\ handler_job' = "none"
  /\ threads' = [threads EXCEPT ![t] = DeadThread]
  /\ missed' = missed \ {t}
  /\ UNCHANGED <<stop_event, pi_matrix, hpc, hreq, unobserved>>

\* Ten milliseconds pass while every running thread sleeps; the statements
\* of a request take no time.
PiTick ==
  /\ PiStep
  /\ hpc = "idle"
  /\ \E t \in DOMAIN threads : threads[t].pc = "loop"
  /\ \A t \in DOMAIN threads : threads[t].pc \notin {"begin", "finally"}
  /\ \A t \in DOMAIN threads : threads[t].pc = "loop" => threads[t].sleep > 0
  /\ threads' = [t \in DOMAIN threads |->
       IF threads[t].pc = "loop"
         THEN [threads[t] EXCEPT !.sleep = @ - 1,
                                 !.elapsed = Min(@ + 1, threads[t].duration)]
         ELSE threads[t]]
  /\ UNCHANGED <<stop_event, handler_job, pi_matrix, hpc, hreq, unobserved, missed>>

NextPi ==
  \/ \E kind \in ShowKinds : MH_show(kind, Dur)
  \/ MH_show_set
  \/ MH_show_start
  \/ MH_clear
  \/ MH_clear_blank
  \/ MH_stop_current
  \/ MH_reset
  \/ \E t \in 1..MaxShows : T_begin(t)
  \/ \E t \in 1..MaxShows : T_loop(t)
  \/ \E t \in 1..MaxShows : T_finally(t)
  \/ PiTick

SpecPi == Init /\ [][NextPi]_vars

\* ------------------------------------------------------ fair scheduling
\* The DisplayManager with one job of each kind, under a fair scheduler: the
\* worker thread (a daemon thread that never ends when no render routine
\* raises) gets to run whenever it is not asleep or waiting on the empty
\* queue, time passes while it sleeps, and a thread inside enqueue() gets to
\* its put. Nothing obliges a client to call enqueue, clear or stop_current.
NextLive ==
  \/ WorkerNext
  \/ Tick
  \/ \E p \in Producers : \E j \in FewJobInputs : DM_enqueue(p, j)
  \/ \E p \in Producers : DM_clear(p)
  \/ \E p \in Producers : Put(p)
  \/ \E p \in Producers : DM_stop_current(p)

Fairness ==
  /\ WF_vars(WorkerNext)
  /\ WF_vars(Tick)
  /\ \A p \in Producers : WF_vars(Put(p))

SpecLive == Init /\ [][NextLive]_vars /\ Fairness

\* ----------------------------------------------------------------- claims

Range(f) == {f[k] : k \in DOMAIN f}
Ids(q) == [k \in DOMAIN q |-> q[k].id]

\* The worker holds a job it took from the queue and has not dispatched yet.
Dequeued == wpc \in {"clear_evt", "publish", "publish_set", "dispatch"}
\* The worker is inside a render routine of its job, or in its brief sleep.
Rendering == wpc \in {"image_loop", "gif_loop", "text_loop", "brief_sleep"}
\* The try block has ended and the current-job slot is not reset yet.
Ended == wpc \in {"finally", "finally_set"}

\* A job that a render routine draws: an image, an animated image, a text
\* or a weather job.
IsRendered(j) ==
  \/ j.type \in {"text", "weather"}
  \/ j.type = "image" /\ (j.image \/ j.gif_frames > 0)

\* C1: the jobs are dispatched in exactly the order of the puts: the ids put
\* so far are the ids dispatched so far, then the job the worker has taken and
\* not dispatched yet, then the ids waiting in the queue.
C1_FifoOrder ==
  putOrder = started \o (IF Dequeued THEN <<job.id>> ELSE <<>>) \o Ids(job_q)

\* Two jobs were dispatched, the second one after a stop_current call hit it.
C1_Witness == Len(started) >= 2 /\ curStopped /\ current_job.id = started[2]

\* C2: after a render routine raised, the worker is still there to take the
\* jobs waiting in the queue.
C2_WorkerSurvivesRaise == ~(wpc = "dead" /\ job_q # <<>>)

\* C3: the event is set exactly while some stop_current call since its last
\* clear is in effect, and once the worker has cleared it for job K, no call
\* made while another job was current is in effect: K is never ended by it.
C3_CancelNotCarriedOver ==
  /\ cancel_evt <=> (setters # {})
  /\ wpc \in {"publish", "publish_set", "dispatch", "finally", "finally_set"} \/ Rendering
       => \A s \in setters : s = 0 \/ s = job.id

\* Job K is taken from the queue while the signal raised against an earlier
\* job is still set.
C3_Witness ==
  /\ wpc = "clear_evt"
  /\ cancel_evt
  /\ \E s \in setters : s # 0 /\ s # job.id

\* C4: a job is never ended early by stop_current calls that were all made
\* while the current-job slot was None.
C4_StopWithoutCurrentIsNoOp ==
  (Ended /\ wexit = "cancel") => setters # {0}

\* C5: the last write to the sink was made by the worker thread, for the job
\* that was published as current at that moment.
C5_SingleWriter ==
  matrix.op # "none" =>
    /\ matrix.by = Worker
    /\ matrix.job # 0
    /\ matrix.job = matrix.cur

\* The current job has written a frame to the sink while a producer is in the
\* middle of an enqueue and a stop_current call has been made.
C5_Witness ==
  /\ matrix.op = "SetImage"
  /\ matrix.job = current_job.id
  /\ cancel_evt
  /\ \E p \in Producers : ppc[p] = "put"

\* C6: the ids handed out are 1, 2, ..., n in this order, the counter is
\* n + 1, no two jobs anywhere carry the same id, and the enqueue call that
\* returned last returned the id of the job it put.
C6_UniqueIds ==
  /\ issued = [k \in 1..Len(issued) |-> k]
  /\ next_id = Len(issued) + 1
  /\ \A a, b \in DOMAIN putOrder : a # b => putOrder[a] # putOrder[b]
  /\ \A p \in Producers : ppc[p] = "put" =>
       /\ pjob[p].id \in Range(issued)
       /\ pjob[p].id \notin Range(putOrder)
       /\ \A q \in Producers \ {p} : ppc[q] = "put" => pjob[q].id # pjob[p].id
  /\ Range(putOrder) \subseteq Range(issued)
  /\ putOrder # <<>> => ret = putOrder[Len(putOrder)]

\* Both producers are inside enqueue at once, each with its own id.
C6_Witness ==
  /\ \A p \in Producers : ppc[p] = "put"
  /\ ret = 0

\* C7: the ids of the jobs dispatched so far are strictly increasing.
C7_IdOrderIsDisplayOrder ==
  \A a, b \in DOMAIN started : a < b => started[a] < started[b]

C9_CancelObservedWithinOneHold ==
  curStopped =>
    /\ cancel_evt
    /\ current_job.id \in setters
    /\ stopAge <= hold

\* A render routine has returned because of a stop_current call that was made
\* during its sleep.
C9_Witness ==
  /\ wpc = "finally" /\ wexit = "cancel"
  /\ IsRendered(job)
  /\ curStopped /\ stopAge > 0

\* C10: a rendered job with duration d that ends uncanceled was current for
\* at least d and at most d + the hold time of its last frame; and while it
\* is rendering uncanceled it has been current for no longer than that.
C10_DurationBounds ==
  (IsRendered(job) /\ job.duration # NoDuration) =>
    /\ (Ended /\ wexit = "expiry")
         => job.duration <= shown /\ shown <= job.duration + hold
    /\ (Rendering /\ ~cancel_evt) => shown <= job.duration + hold

\* A job with a duration has expired later than its duration, within the
\* hold time of its last frame.
C10_Witness ==
  /\ Ended /\ wexit = "expiry"
  /\ IsRendered(job)
  /\ shown > job.duration

\* C11: clear() does not bypass the queue. The sink is blanked by the worker
\* only, for a Clear job it took from the queue, and by then every job put
\* before that Clear job was dispatched and has ended; clear() itself does
\* not write the sink and does not set the cancel event, which only
\* stop_current sets.
Finished(id) == id \in Range(started) /\ id # job.id

C11_ClearGoesThroughQueue ==
  /\ matrix.op = "Clear" =>
       /\ matrix.by = Worker
       /\ matrix.job \in Range(started)
       /\ \A a, b \in DOMAIN putOrder :
            (a < b /\ putOrder[b] = matrix.job) => Finished(putOrder[a])
  /\ cancel_evt => setters # {}

\* The worker blanks the sink for a Clear job made by clear() that waited
\* behind another job, while no stop_current was called.
C11_Witness ==
  /\ matrix.op = "Clear"
  /\ wpc = "brief_sleep"
  /\ job = [ClearJob EXCEPT !.id = matrix.job]
  /\ Len(started) = 2
  /\ started[2] = matrix.job
  /\ ~cancel_evt

\* C12: the worker holds the lock only inside its two with-blocks (the slot
\* is published, the slot is reset): never while it waits on the queue, is
\* about to dispatch, runs a render routine or sleeps. So whenever the
\* worker is at one of those places a status() call can take the lock at
\* once, and so can the _next_job_id of an enqueue() or clear() call.
C12_LockNotHeldWhileRendering ==
  /\ lock \in {Free, Worker}
  /\ lock = Worker => wpc \in {"publish_set", "finally_set"}
  /\ (wpc \in {"get", "dispatch"} \/ Rendering) =>
       /\ spc = "idle" => ENABLED DM_status_read
       /\ \A p \in Producers :
            (ppc[p] = "idle" /\ next_id <= MaxJobs) => ENABLED DM_clear(p)

\* status() returned the current job while that job, which has no duration,
\* was being rendered and had been for at least one sleep.
C12_Witness ==
  /\ reply.kind = "status"
  /\ reply.current_job_id = job.id
  /\ IsRendered(job)
  /\ job.duration = NoDuration
  /\ Rendering
  /\ hold > 0
  /\ sleep = 0

\* C13: one job J was put on an idle manager, nothing else was enqueued, and
\* J has not ended: a status() call that began after the put replies either
\* queue_size 1 with no current job, or queue_size 0 with J as current job.
C13_StatusSeesTheJob ==
  ( /\ reply.kind = "status"
    /\ reply.nput = 1
    /\ Len(putOrder) = 1
    /\ next_id = 2
    /\ (job_q # <<>> \/ Dequeued \/ Rendering) )
  => \/ reply.queue_size = 1 /\ reply.current_job_id = 0
     \/ reply.queue_size = 0 /\ reply.current_job_id = putOrder[1]

\* C14: a job that breaks the job invariants (a duration that is present
\* and not strictly positive, an image job without image and without
\* frames) is refused by enqueue: it is never in the queue and never in the
\* hands of a producer past _next_job_id or of the worker.
C14_InvalidJobNeverQueued ==
  LET ValidJob(j) ==
        /\ j.duration = NoDuration \/ j.duration > 0
        /\ j.type = "image" => (j.image \/ j.gif_frames > 0)
  IN /\ \A k \in DOMAIN job_q : ValidJob(job_q[k])
     /\ \A p \in Producers : ValidJob(pjob[p])
     /\ ValidJob(job)

\* C15: a show-text request whose text is empty or whitespace only is never
\* enqueued, and the step that replies the client error to it (only such
\* texts get that reply) leaves the queue, the current job, the id counter
\* and the handler threads' enqueue calls as they were.
C15_BlankTextRejected ==
  /\ [](~acceptedBlank)
  /\ [][reply'.kind = "error" =>
          /\ reply'.status_code = 400
          /\ IsBlank(reply'.text)
          /\ UNCHANGED <<job_q, current_job, next_id, ppc, pjob>>]_vars

\* A whitespace-only text is refused while a job is current and another one
\* waits in the queue.
C15_Witness ==
  /\ reply.kind = "error"
  /\ reply.text = <<" ">>
  /\ current_job # NoJob
  /\ job_q # <<>>

\* C16: the current-job slot is empty whenever the worker waits on the
\* queue, holds a job it has not published yet, or has ended after an
\* exception; a job in the slot is the worker's present job, is not in the
\* queue, and is the job dispatched last (or about to be dispatched), never
\* one dispatched before it.
C16_SlotResetBeforeNextJob ==
  /\ wpc \in {"get", "clear_evt", "publish", "publish_set", "dead"} => current_job = NoJob
  /\ current_job # NoJob =>
       /\ current_job = job
       /\ current_job.id \notin Range(Ids(job_q))
       /\ wpc = "dispatch" => current_job.id \notin Range(started)
       /\ wpc # "dispatch" =>
            /\ Rendering \/ Ended
            /\ current_job.id = started[Len(started)]

\* The worker waits for the next job with an empty slot after the first job
\* was cancelled by stop_current, while another job is in the queue.
C16_Witness ==
  /\ wpc = "get"
  /\ current_job = NoJob
  /\ Len(started) = 1
  /\ cancel_evt
  /\ setters = {started[1]}
  /\ job_q # <<>>

\* C17: no frame is written to the sink at a moment when the exit condition
\* of the writing job holds (its cancel event is set or its duration has
\* elapsed); this covers the first frame of the job.
C17_NoWriteAfterExit == matrix.op = "SetImage" => ~matrix.late

\* C18: every pass of the loop of _display_gif that writes a frame writes
\* frame 0 if it is the first write of the job, and otherwise the frame after
\* the one written last, modulo the number of frames n, for n from 1 to
\* MaxFrames.
C18_GifFrameOrder ==
  [][(wpc = "gif_loop" /\ sleep = 0 /\ sleep' > 0) =>
       /\ matrix'.op = "SetImage"
       /\ matrix'.job = job.id
       /\ matrix'.frame = IF matrix.job = job.id
                             THEN (matrix.frame + 1) % job.gif_frames
                             ELSE 0]_vars

\* An animated image of MaxFrames frames wrote its last frame and its index
\* is back at 0.
C18_Witness ==
  /\ wpc = "gif_loop"
  /\ job.gif_frames = MaxFrames
  /\ matrix.job = job.id
  /\ matrix.frame = MaxFrames - 1
  /\ i = 0

\* C19 as claimed: the frames of a scrolling text of width ScrollTextW on a
\* matrix of width ViewportW are written at the offsets 0, 1, 2, ... modulo
\* ScrollTextW + ViewportW, the first one at offset 0.
C19_ScrollStartsAtZero ==
  [][(wpc = "text_loop" /\ sleep = 0 /\ sleep' > 0) =>
       matrix'.frame = IF matrix.job = job.id
                         THEN (matrix.frame + 1) % (ScrollTextW + ViewportW)
                         ELSE 0]_vars

\* C19, amended: the frames are written at the offsets 1, 2, ..., modulo
\* ScrollTextW + ViewportW: the first one at offset 1, each next one at the
\* offset after the last, offset 0 after the largest, and every offset is
\* at least 0 and less than ScrollTextW + ViewportW.
C19_ScrollStartsAtOne ==
  [][(wpc = "text_loop" /\ sleep = 0 /\ sleep' > 0) =>
       /\ matrix'.op = "SetImage"
       /\ matrix'.job = job.id
       /\ matrix'.frame = IF matrix.job = job.id
                             THEN (matrix.frame + 1) % (ScrollTextW + ViewportW)
                             ELSE 1
       /\ matrix'.frame \in 0..(ScrollTextW + ViewportW - 1)]_vars

\* The scrolling text wrote the frame at offset 0, which comes after the
\* frame at the largest offset.
C19_Witness ==
  /\ wpc = "text_loop"
  /\ job.text_w = ScrollTextW
  /\ width = ViewportW
  /\ matrix.op = "SetImage"
  /\ matrix.job = job.id
  /\ matrix.frame = 0

\* C20: a Clear job, with or without duration, with the cancel event set or
\* not, never enters a loop that waits for the duration or the event. Once
\* dispatched it has blanked the sink and sleeps ClearHold ticks: the sleep
\* is never extended and the sink is not written again, and when the sleep
\* is over the worker's only step ends the job normally.
C20_ClearJobEndsByItself ==
  /\ [](job.type = "clear" =>
          /\ wpc \notin {"image_loop", "gif_loop", "text_loop"}
          /\ (wpc = "brief_sleep" \/ Ended) =>
               /\ matrix.op = "Clear"
               /\ matrix.job = job.id
               /\ hold = ClearHold
               /\ sleep <= ClearHold
          /\ Ended => wexit = "done" /\ sleep = 0
          /\ (wpc = "brief_sleep" /\ sleep = 0) => ENABLED W_brief_done)
  /\ [][(job.type = "clear" /\ wpc = "brief_sleep") =>
          /\ matrix' = matrix
          /\ sleep' <= sleep
          /\ wpc' = "brief_sleep" \/ (sleep = 0 /\ wpc' = "finally")]_vars

\* A Clear job without duration has ended by itself, no stop_current was
\* called since it was taken, and another job waits behind it.
C20_Witness ==
  /\ Ended
  /\ job.type = "clear"
  /\ job.duration = NoDuration
  /\ wexit = "done"
  /\ ~cancel_evt
  /\ job_q # <<>>


\* C21: the MatrixHandler has no queue and no mutual exclusion. A show
\* request never waits: whenever the server thread is idle it can start
\* another worker thread, however many threads are running, and from its
\* first statement on the stop event is clear, whichever threads have not
\* polled a stop yet. A worker thread never waits either: its next statement
\* (the first SetImage, a pass of its loop with its write to the sink) can
\* run whatever the other threads are doing.
C21_NoQueueNoExclusion ==
  /\ (hpc = "idle" /\ Len(threads) < MaxShows)
       => \A kind \in ShowKinds : ENABLED MH_show(kind, Dur)
  /\ hpc \in {"show_set", "show_start"} => (~stop_event /\ unobserved = {})
  /\ \A t \in DOMAIN threads :
       /\ threads[t].pc = "begin" => ENABLED T_begin(t)
       /\ (threads[t].pc = "loop" /\ threads[t].sleep = 0) => ENABLED T_loop(t)

\* Two worker threads are inside their loops and write in turn: the earlier
\* one has just written over a frame of the later one. A stop was requested
\* while the earlier thread ran, and the later show request cleared the
\* event before that thread polled it, so it is still within its duration
\* and goes on writing.
C21_Witness ==
  \E t1, t2 \in DOMAIN threads :
    /\ t1 < t2
    /\ threads[t1].pc = "loop"
    /\ threads[t2].pc = "loop"
    /\ threads[t1].kind \in {"animated", "text"}
    /\ threads[t2].kind \in {"animated", "text"}
    /\ pi_matrix = [op |-> "SetImage", by |-> t1, prev |-> t2]
    /\ t1 \in missed
    /\ ~stop_event
    /\ threads[t1].elapsed < threads[t1].duration


\* Job k was put on the queue and the worker has not dispatched it yet.
Waiting(k) == k \in Range(putOrder) /\ k \notin Range(started)

\* The job inside its render routine has no duration: it ends only when it
\* is canceled.
Unbounded == wpc \in {"image_loop", "gif_loop", "text_loop"} /\ job.duration = NoDuration

\* Every job put on the queue so far has been dispatched and has ended.
AllDone == putOrder # <<>> /\ \A k \in Range(putOrder) : Finished(k)

\* C22: under a fair scheduler and with no render routine raising, if every
\* job without a duration that is being rendered while another job waits in
\* the queue is eventually canceled (jobs with a duration end by themselves),
\* then every job put on the queue eventually becomes the current job and
\* its branch of the worker runs, in the order of the puts: again and again
\* the jobs dispatched are exactly the jobs put, so no job is starved or
\* dropped. And once all jobs put on the queue are done, the queue is empty
\* and there is no current job.
C22_NoStarvation ==
  /\ [](Unbounded /\ job_q # <<>> => <>(cancel_evt \/ ~Unbounded))
       => []<>(started = putOrder)
  /\ [](AllDone => (job_q = <<>> /\ current_job = NoJob /\ wpc = "get"))

\* The job put first, a rendered job without a duration, has left its render
\* routine because it was canceled; the job put second waited in the queue
\* meanwhile and is now at its head, the next one the worker takes.
C22_Witness ==
  /\ wpc = "finally"
  /\ wexit = "cancel"
  /\ job.duration = NoDuration
  /\ IsRendered(job)
  /\ Len(putOrder) >= 2
  /\ job.id = putOrder[1]
  /\ job_q # <<>>
  /\ Head(job_q).id = putOrder[2]
  /\ Waiting(putOrder[2])

====
